---------------------------- MODULE Spec2Model ----------------------------
(***************************************************************************)
(* Verification model of the dashboard's two core components:              *)
(*   - the stream connection supervisor (RuuviWidget.vue, first script     *)
(*     block), and                                                         *)
(*   - the adaptive poll scheduler (StockWatchlist.vue, second script      *)
(*     block).                                                             *)
(* The two components share no state; each has its own specification.      *)
(* Time is discrete.  Timers are modelled as the runtime keeps them: a set *)
(* of pending timers, each with the time left until it is due.  A timer    *)
(* variable is null (0) or holds a timer id (1): always the id of the      *)
(* timer of its kind created last, which is marked cur while it is pending.*)
(***************************************************************************)
EXTENDS Integers, Naturals, Sequences, FiniteSets, Bags, TLC

(***************************************************************************)
(*                    PART I - STREAM CONNECTION SUPERVISOR                *)
(***************************************************************************)

\* Program constants (milliseconds)
THROTTLE_MS == 2000
WATCHDOG_MS == 45000
RECONNECT_MS == 3000
HEARTBEAT_MS == 20000
HEALTHCHECK_MS == 10000

\* Bounds of the model
MaxPayload == 2       \* distinct sensor payloads the transport may deliver
MaxTimers == 3        \* pending timers of one kind the runtime will hold
MaxSamples == 2       \* samples counted in a rolling buffer (the code keeps HISTORY_SIZE)

RECURSIVE GCD(_, _)
GCD(a, b) == IF b = 0 THEN a ELSE GCD(b, a % b)

\* The clock advances in steps of the greatest common divisor of the timer
\* periods: every timer deadline is a multiple of it.
Quantum == GCD(GCD(GCD(THROTTLE_MS, WATCHDOG_MS), GCD(RECONNECT_MS, HEARTBEAT_MS)), HEALTHCHECK_MS)

\* Date.now() - lastMessageAt is only ever compared with WATCHDOG_MS; the
\* model keeps the difference and stops counting one health-check period
\* and one quantum past the budget.
AgeCap == WATCHDOG_MS + HEALTHCHECK_MS + Quantum

Payloads == 1..MaxPayload
ReadyStates == {"CONNECTING", "OPEN", "CLOSING", "CLOSED"}

VARIABLES
  phase,          \* component lifecycle: "setup", "mounted", "unmounted"
  isConnected,    \* ref isConnected
  latestData,     \* ref latestData (0 = null)
  displayData,    \* ref displayData (0 = null)
  socket,         \* let socket: 0 = null, 1 = a WebSocket object
  readyState,     \* socket.readyState of the object `socket` refers to
  orphan,         \* readyState of the socket released by onUnmounted with its
                  \* handlers still attached ("none" when there is none)
  superseded,     \* the socket connect() replaced, while its close event is
                  \* outstanding: "detached" or "attached" as its handlers are
                  \* ("none" when there is none)
  throttleTimer, reconnectTimer, watchdogTimer, heartbeatTimer, healthCheckTimer,
                  \* the timer variables: 0 = null, 1 = a timer id
  timers,         \* the runtime's pending timers: records [kind, cur, left]
  msgAge,         \* Date.now() - lastMessageAt.value
  tempHistory,    \* length of ref tempHistory, and of humidityHistory and
                  \* pressureHistory, which change together (counted up to
                  \* MaxSamples); -1 in runs that do not follow the buffers
  dataAge,        \* observer: time since the session opened or last received a
                  \* data message (capped); -1 in runs that do not observe it
  sinceDisplay    \* observer: time since displayData last changed (capped)

streamVars == <<phase, isConnected, latestData, displayData, socket, readyState, orphan,
                superseded,
                throttleTimer, reconnectTimer, watchdogTimer, heartbeatTimer,
                healthCheckTimer, timers, msgAge, tempHistory, dataAge, sinceDisplay>>

\* State of the poll scheduler (PART II)
VARIABLES
  now,                    \* Date.now(), on the exchange's wall clock
  tz,                     \* offset of the browser's local time from exchange time
  startAt,                \* observer: the instant the widget was started
  endAt,                  \* the instant up to which the clock is followed
  mpc,                    \* position of onMounted: "setup", "watchlist", "quotes", "done"
  alive,                  \* FALSE once onUnmounted has run
  stockWatchlist,         \* keys of ref stockWatchlist
  stockQuotes,            \* ref stockQuotes: symbol -> 0 (absent), 1 (batch), 2 (single)
  stockHistory,           \* ref stockHistory: interval -> symbol -> 0 (absent), 1
  selectedSymbol,         \* ref selectedSymbol (0 = null)
  isLoading, isDetailLoading, isInitialHistoryLoaded,
  lastQuoteFetchTime, lastHistoryFetchTime,
  schedulerTimer,         \* let schedulerTimer: 0 = null, 1 = an interval id
  tickAt,                 \* when the scheduler interval fires next (0 = not running)
  histTimerAt,            \* when the startup history timer fires (0 = not pending)
  inflight,               \* requests awaiting their response
  nSelects,               \* observer: calls of selectStock that passed the gate
  lastOp,                 \* observer: the handler that ran last
  issued                  \* observer: the requests the last handler issued

schedVars == <<now, tz, startAt, endAt, mpc, alive, stockWatchlist, stockQuotes, stockHistory,
               selectedSymbol, isLoading, isDetailLoading, isInitialHistoryLoaded,
               lastQuoteFetchTime, lastHistoryFetchTime, schedulerTimer, tickAt,
               histTimerAt, inflight, nSelects, lastOp, issued>>

vars == <<streamVars, schedVars>>

----------------------------------------------------------------------------
\* The timer primitive

Pending(kind) == {t \in timers : t.kind = kind}

\* x = setTimeout / setInterval(..., delay): one more pending timer, and it
\* is now the one the variable of its kind holds
SetTimer(ts, kind, delay) ==
  {IF t.kind = kind THEN [t EXCEPT !.cur = FALSE] ELSE t : t \in ts}
    \cup {[kind |-> kind, cur |-> TRUE, left |-> delay]}

\* clearTimeout / clearInterval(x) for the variable x of a kind: removes the
\* timer x holds; a no-op when x is null or its timer has fired or been cleared
ClearTimer(ts, kind, x) == IF x = 0 THEN ts ELSE {t \in ts : ~(t.kind = kind /\ t.cur)}

CanArm(kind) == Cardinality(Pending(kind)) < MaxTimers

Min(a, b) == IF a < b THEN a ELSE b

Due(kind) == {t \in Pending(kind) : t.left = 0}

----------------------------------------------------------------------------
\* Helpers of the supervisor

\* socket?.close(...): a socket that is connecting or open starts closing;
\* null, closing and closed sockets are left as they are
CloseCall(s, rs) == IF s = 1 /\ rs \in {"CONNECTING", "OPEN"} THEN "CLOSING" ELSE rs

\* resetWatchdog (lines 37-43): the timers after clearing the old watchdog
\* and arming a new one
ResetWatchdog(ts) == SetTimer(ClearTimer(ts, "watchdog", watchdogTimer), "watchdog", WATCHDOG_MS)

\* startHeartbeat (lines 45-53)
StartHeartbeat(ts) == SetTimer(ClearTimer(ts, "heartbeat", heartbeatTimer), "heartbeat", HEARTBEAT_MS)

\* Variant of StartHealthCheck that starts no interval
StartHealthCheckOff(ts) == ts

\* startHealthCheck (lines 55-63)
StartHealthCheck(ts) == SetTimer(ClearTimer(ts, "health", healthCheckTimer), "health", HEALTHCHECK_MS)

\* Variant of IsStale that compares with the wrong budget
IsStaleLate(age) == age > WATCHDOG_MS + HEARTBEAT_MS

\* The health check's staleness test (line 58)
IsStale(age) == age > WATCHDOG_MS

\* Variant of ConnectCleanup that nulls the variable without clearTimeout
ConnectCleanupNoClear(ts, rt) == ts

\* connect(), cleanup of the reconnect timer (lines 67-68)
ConnectCleanup(ts, rt) == ClearTimer(ts, "reconnect", rt)

\* Variant of Release that closes the previous socket with its handlers on
ReleaseAttached(s, rs, old) == IF s = 1 /\ rs # "CLOSED" THEN "attached" ELSE old

\* connect(), release of the previous socket (lines 70-77): its handlers
\* are detached, close() is called and the variable is nulled.  Unless it was
\* closed already its close event is still to come.  One replaced socket is
\* kept: with their handlers detached, two of them behave as one.
Release(s, rs, old) == IF s = 1 /\ rs # "CLOSED" THEN "detached" ELSE old

\* The rolling buffers, where they are followed: their length becomes n
FollowHistory(n) == tempHistory' = IF tempHistory < 0 THEN tempHistory ELSE n

\* updateHistory (lines 150-155): the length of a buffer of length n after a
\* push; a full buffer drops its oldest sample
UpdateHistory(n) == Min(n + 1, MaxSamples)

\* connect() (lines 65-145) run on the timer set ts with reconnectTimer = rt:
\* the previous socket, if any, is released, the rolling buffers are emptied
\* and a new socket is created.
Connect(ts, rt) ==
  /\ timers' = ConnectCleanup(ts, rt)
  /\ superseded' = Release(socket, readyState, superseded)
  /\ reconnectTimer' = 0
  /\ socket' = 1
  /\ readyState' = "CONNECTING"
  /\ isConnected' = FALSE
  /\ FollowHistory(0)

\* Variant of MayArmReconnect that never arms
MayArmReconnectNever(rt) == FALSE

\* The test of socket.onclose that decides whether to arm a reconnect (line 133)
MayArmReconnect(rt) == rt = 0

\* socket.onclose (lines 125-139) on the timer set ts
OnClose(ts) ==
  LET cleared == ClearTimer(ClearTimer(ClearTimer(ts, "watchdog", watchdogTimer),
                              "heartbeat", heartbeatTimer), "health", healthCheckTimer)
  IN /\ isConnected' = FALSE
     /\ IF MayArmReconnect(reconnectTimer)
          THEN /\ timers' = SetTimer(cleared, "reconnect", RECONNECT_MS)
               /\ reconnectTimer' = 1
          ELSE /\ timers' = cleared
               /\ reconnectTimer' = reconnectTimer

\* Variant of ThrottleIdle that does not look at the pending timer
ThrottleIdleAlways(tt) == TRUE

\* The throttle test of socket.onmessage (line 113)
ThrottleIdle(tt) == tt = 0

----------------------------------------------------------------------------
\* Initial state: the script has run, onMounted has not

\* d and n start the observer of data silence and the rolling buffers, or
\* are -1 in the runs that do not follow them
StreamInitFollowing(d, n) ==
  /\ phase = "setup"
  /\ isConnected = FALSE
  /\ latestData = 0
  /\ displayData = 0
  /\ socket = 0
  /\ readyState = "CLOSED"
  /\ orphan = "none"
  /\ superseded = "none"
  /\ throttleTimer = 0
  /\ reconnectTimer = 0
  /\ watchdogTimer = 0
  /\ heartbeatTimer = 0
  /\ healthCheckTimer = 0
  /\ timers = {}
  /\ msgAge = 0
  /\ dataAge = d
  /\ tempHistory = n
  /\ sinceDisplay = THROTTLE_MS

StreamInitObserving(d) == StreamInitFollowing(d, -1)

StreamInit == StreamInitObserving(-1)

\* The observer of data silence, where it is kept: it becomes d
ObserveData(d) == dataAge' = IF dataAge < 0 THEN dataAge ELSE d

\* The observer of displayData: restarted when the value changes
ObserveDisplay == sinceDisplay' = IF displayData' # displayData THEN 0 ELSE sinceDisplay

----------------------------------------------------------------------------
\* Lifecycle

\* onMounted (lines 212-215)
Mount ==
  /\ phase = "setup"
  /\ phase' = "mounted"
  /\ Connect(timers, reconnectTimer)
  /\ UNCHANGED <<latestData, displayData, orphan, throttleTimer, watchdogTimer,
                 heartbeatTimer, healthCheckTimer, msgAge, sinceDisplay>>
  /\ UNCHANGED dataAge
  /\ UNCHANGED schedVars

\* Variant of NeedsConnect that reconnects on every foreground transition
NeedsConnectAlways(s, rs) == TRUE

\* The test of handleVisibilityChange (line 204)
NeedsConnect(s, rs) == s = 0 \/ rs # "OPEN"

\* handleVisibilityChange with visibilityState = 'visible' (lines 202-210)
Visible ==
  /\ phase = "mounted"
  /\ IF NeedsConnect(socket, readyState)
       THEN /\ Connect(timers, reconnectTimer)
            /\ UNCHANGED watchdogTimer
       ELSE /\ timers' = ResetWatchdog(timers)
            /\ watchdogTimer' = 1
            /\ UNCHANGED <<reconnectTimer, socket, readyState, isConnected, superseded>>
            /\ UNCHANGED tempHistory
  /\ UNCHANGED <<phase, latestData, displayData, orphan, throttleTimer,
                 heartbeatTimer, healthCheckTimer, msgAge, sinceDisplay>>
  /\ UNCHANGED dataAge
  /\ UNCHANGED schedVars

\* onUnmounted (lines 217-225): the timers are cleared but their variables
\* keep the ids; the socket is closed and released with its handlers attached
Unmount ==
  /\ phase = "mounted"
  /\ phase' = "unmounted"
  /\ timers' = ClearTimer(ClearTimer(ClearTimer(ClearTimer(timers,
                 "reconnect", reconnectTimer), "watchdog", watchdogTimer),
                 "heartbeat", heartbeatTimer), "health", healthCheckTimer)
  /\ orphan' = IF socket = 1 /\ readyState # "CLOSED" THEN "CLOSING" ELSE orphan
  /\ socket' = 0
  /\ readyState' = "CLOSED"
  /\ UNCHANGED <<isConnected, latestData, displayData, throttleTimer, reconnectTimer,
                 watchdogTimer, heartbeatTimer, healthCheckTimer, msgAge, sinceDisplay>>
  /\ UNCHANGED superseded
  /\ UNCHANGED tempHistory
  /\ UNCHANGED dataAge
  /\ UNCHANGED schedVars

----------------------------------------------------------------------------
\* Socket events

\* socket.onopen (lines 88-95)
SocketOpen ==
  /\ socket = 1 /\ readyState = "CONNECTING"
  /\ readyState' = "OPEN"
  /\ isConnected' = TRUE
  /\ msgAge' = 0
  /\ timers' = StartHealthCheck(StartHeartbeat(ResetWatchdog(timers)))
  /\ watchdogTimer' = 1
  /\ heartbeatTimer' = 1
  /\ healthCheckTimer' = 1
  /\ UNCHANGED <<phase, latestData, displayData, socket, orphan, throttleTimer,
                 reconnectTimer, sinceDisplay>>
  /\ UNCHANGED superseded
  /\ UNCHANGED tempHistory
  /\ ObserveData(0)
  /\ UNCHANGED schedVars

\* socket.onmessage with a payload that parses (lines 97-119)
DataMessage(v) ==
  /\ socket = 1 /\ readyState = "OPEN"
  /\ msgAge' = 0
  /\ latestData' = v
  /\ watchdogTimer' = 1
  /\ IF ThrottleIdle(throttleTimer)
       THEN /\ CanArm("throttle")
            /\ displayData' = v
            /\ timers' = SetTimer(ResetWatchdog(timers), "throttle", THROTTLE_MS)
            /\ throttleTimer' = 1
       ELSE /\ timers' = ResetWatchdog(timers)
            /\ UNCHANGED <<displayData, throttleTimer>>
  /\ ObserveDisplay
  /\ UNCHANGED <<phase, isConnected, socket, readyState, orphan, reconnectTimer,
                 heartbeatTimer, healthCheckTimer>>
  /\ UNCHANGED superseded
  /\ FollowHistory(UpdateHistory(tempHistory))
  /\ ObserveData(0)
  /\ UNCHANGED schedVars

\* socket.onmessage with 'pong' (lines 97-101), or with a payload on which
\* JSON.parse throws (lines 97-104, 120-122): lastMessageAt and the watchdog
\* are reset before the payload is looked at
QuietMessage ==
  /\ socket = 1 /\ readyState = "OPEN"
  /\ msgAge' = 0
  /\ timers' = ResetWatchdog(timers)
  /\ watchdogTimer' = 1
  /\ UNCHANGED <<phase, isConnected, latestData, displayData, socket, readyState, orphan,
                 throttleTimer, reconnectTimer, heartbeatTimer, healthCheckTimer,
                 sinceDisplay>>
  /\ UNCHANGED superseded
  /\ UNCHANGED tempHistory
  /\ UNCHANGED dataAge
  /\ UNCHANGED schedVars

\* socket.onmessage with the payload null (lines 97-110, 120-122):
\* JSON.parse returns null, latestData is assigned, and reading
\* parsed.temperature throws into the catch before a buffer is touched
NullMessage ==
  /\ socket = 1 /\ readyState = "OPEN"
  /\ msgAge' = 0
  /\ latestData' = 0
  /\ timers' = ResetWatchdog(timers)
  /\ watchdogTimer' = 1
  /\ UNCHANGED <<phase, isConnected, displayData, socket, readyState, orphan,
                 throttleTimer, reconnectTimer, heartbeatTimer, healthCheckTimer,
                 sinceDisplay>>
  /\ UNCHANGED superseded
  /\ UNCHANGED tempHistory
  /\ UNCHANGED dataAge
  /\ UNCHANGED schedVars

\* socket.onerror (lines 141-144)
SocketError ==
  /\ socket = 1 /\ readyState \in {"CONNECTING", "OPEN"}
  /\ readyState' = CloseCall(socket, readyState)
  /\ UNCHANGED <<phase, isConnected, latestData, displayData, socket, orphan,
                 throttleTimer, reconnectTimer, watchdogTimer, heartbeatTimer,
                 healthCheckTimer, timers, msgAge, sinceDisplay>>
  /\ UNCHANGED superseded
  /\ UNCHANGED tempHistory
  /\ UNCHANGED dataAge
  /\ UNCHANGED schedVars

\* The close event of the current socket: socket.onclose (lines 125-139)
SocketClose ==
  /\ socket = 1 /\ readyState # "CLOSED"
  /\ CanArm("reconnect")
  /\ readyState' = "CLOSED"
  /\ OnClose(timers)
  /\ UNCHANGED <<phase, latestData, displayData, socket, orphan, throttleTimer,
                 watchdogTimer, heartbeatTimer, healthCheckTimer, msgAge, sinceDisplay>>
  /\ UNCHANGED superseded
  /\ UNCHANGED tempHistory
  /\ UNCHANGED dataAge
  /\ UNCHANGED schedVars

\* The close event of the socket connect() replaced: it runs the handler the
\* socket still has, which is none once the handlers were detached
SupersededClose ==
  /\ superseded # "none"
  /\ superseded' = "none"
  /\ IF superseded = "attached"
       THEN CanArm("reconnect") /\ OnClose(timers)
       ELSE UNCHANGED <<isConnected, timers, reconnectTimer>>
  /\ UNCHANGED <<phase, latestData, displayData, socket, readyState, orphan, throttleTimer,
                 watchdogTimer, heartbeatTimer, healthCheckTimer, msgAge, sinceDisplay>>
  /\ UNCHANGED tempHistory
  /\ UNCHANGED dataAge
  /\ UNCHANGED schedVars

\* The close event of the socket onUnmounted released: the same handler
OrphanClose ==
  /\ orphan = "CLOSING"
  /\ CanArm("reconnect")
  /\ orphan' = "none"
  /\ OnClose(timers)
  /\ UNCHANGED <<phase, latestData, displayData, socket, readyState, throttleTimer,
                 watchdogTimer, heartbeatTimer, healthCheckTimer, msgAge, sinceDisplay>>
  /\ UNCHANGED superseded
  /\ UNCHANGED tempHistory
  /\ UNCHANGED dataAge
  /\ UNCHANGED schedVars

----------------------------------------------------------------------------
\* Timer callbacks: a timer runs when its time is up

\* The watchdog callback (lines 39-42)
WatchdogFire ==
  \E t \in Due("watchdog") :
    /\ timers' = timers \ {t}
    /\ readyState' = CloseCall(socket, readyState)
    /\ UNCHANGED <<phase, isConnected, latestData, displayData, socket, orphan,
                   throttleTimer, reconnectTimer, watchdogTimer, heartbeatTimer,
                   healthCheckTimer, msgAge, sinceDisplay>>
  /\ UNCHANGED superseded
  /\ UNCHANGED tempHistory
  /\ UNCHANGED dataAge
  /\ UNCHANGED schedVars

\* The heartbeat callback (lines 47-52): an interval, so it is armed again
HeartbeatFire ==
  \E t \in Due("heartbeat") :
    /\ timers' = (timers \ {t}) \cup {[t EXCEPT !.left = HEARTBEAT_MS]}
    /\ UNCHANGED <<phase, isConnected, latestData, displayData, socket, readyState, orphan,
                   throttleTimer, reconnectTimer, watchdogTimer, heartbeatTimer,
                   healthCheckTimer, msgAge, sinceDisplay>>
  /\ UNCHANGED superseded
  /\ UNCHANGED tempHistory
  /\ UNCHANGED dataAge
  /\ UNCHANGED schedVars

\* The health-check callback (lines 57-62): an interval
HealthCheckFire ==
  \E t \in Due("health") :
    /\ timers' = (timers \ {t}) \cup {[t EXCEPT !.left = HEALTHCHECK_MS]}
    /\ readyState' = IF IsStale(msgAge) THEN CloseCall(socket, readyState) ELSE readyState
    /\ UNCHANGED <<phase, isConnected, latestData, displayData, socket, orphan,
                   throttleTimer, reconnectTimer, watchdogTimer, heartbeatTimer,
                   healthCheckTimer, msgAge, sinceDisplay>>
  /\ UNCHANGED superseded
  /\ UNCHANGED tempHistory
  /\ UNCHANGED dataAge
  /\ UNCHANGED schedVars

\* The reconnect callback (lines 134-137)
ReconnectFire ==
  \E t \in Due("reconnect") :
    /\ Connect(timers \ {t}, 0)
    /\ UNCHANGED <<phase, latestData, displayData, orphan, throttleTimer, watchdogTimer,
                   heartbeatTimer, healthCheckTimer, msgAge, sinceDisplay>>
  /\ UNCHANGED dataAge
  /\ UNCHANGED schedVars

\* Variant of Promoted without the null test
PromotedUnguarded(latest, display) == latest

\* The value the promote callback leaves in displayData (line 116)
Promoted(latest, display) == IF latest # 0 THEN latest ELSE display

\* The promote callback (lines 115-118)
ThrottleFire ==
  \E t \in Due("throttle") :
    /\ timers' = timers \ {t}
    /\ displayData' = Promoted(latestData, displayData)
    /\ throttleTimer' = 0
    /\ ObserveDisplay
    /\ UNCHANGED <<phase, isConnected, latestData, socket, readyState, orphan,
                   reconnectTimer, watchdogTimer, heartbeatTimer, healthCheckTimer, msgAge>>
  /\ UNCHANGED superseded
  /\ UNCHANGED tempHistory
  /\ UNCHANGED dataAge
  /\ UNCHANGED schedVars

\* Time passes by one quantum, unless a timer is due: a due timer runs first
Tick ==
  /\ phase # "setup"
  /\ \A t \in timers : t.left > 0
  /\ timers' = {[t EXCEPT !.left = t.left - Quantum] : t \in timers}
  /\ msgAge' = Min(msgAge + Quantum, AgeCap)
  /\ sinceDisplay' = Min(sinceDisplay + Quantum, THROTTLE_MS)
  /\ UNCHANGED <<phase, isConnected, latestData, displayData, socket, readyState, orphan,
                 throttleTimer, reconnectTimer, watchdogTimer, heartbeatTimer,
                 healthCheckTimer>>
  /\ UNCHANGED superseded
  /\ UNCHANGED tempHistory
  /\ ObserveData(Min(dataAge + Quantum, AgeCap))
  /\ UNCHANGED schedVars

StreamNext ==
  \/ Mount
  \/ Visible
  \/ Unmount
  \/ SocketOpen
  \/ \E v \in Payloads : DataMessage(v)
  \/ QuietMessage
  \/ SocketError
  \/ SocketClose
  \/ OrphanClose
  \/ SupersededClose
  \/ WatchdogFire
  \/ HeartbeatFire
  \/ HealthCheckFire
  \/ ReconnectFire
  \/ ThrottleFire
  \/ Tick


\* The supervisor while it stays mounted and in the foreground, with the
\* transport delivering data and keepalive acknowledgments
KeepaliveNext ==
  \/ Mount
  \/ SocketOpen
  \/ \E v \in Payloads : DataMessage(v)
  \/ QuietMessage
  \/ SocketClose
  \/ WatchdogFire
  \/ HeartbeatFire
  \/ HealthCheckFire
  \/ ReconnectFire
  \/ ThrottleFire
  \/ Tick

\* The supervisor while it stays mounted, with a transport that delivers
\* whatever text it likes and a connection that fails
PayloadNext ==
  \/ KeepaliveNext
  \/ NullMessage
  \/ SocketError

----------------------------------------------------------------------------
\* Properties of the stream supervisor

Open == socket = 1 /\ readyState = "OPEN"

\* C1: an Open session never stays silent for longer than the silence
\* budget plus one health-check period: by then the watchdog or the health
\* check has force-closed it, whatever foreground events re-armed the
\* watchdog; and once the close has been handled a reconnect timer is
\* pending, due within RECONNECT_MS, whose callback opens a new connection.
C1_SilentSessionReplaced ==
  /\ Open => msgAge <= WATCHDOG_MS + HEALTHCHECK_MS
  /\ (socket = 1 /\ readyState = "CLOSED") =>
        \E t \in Pending("reconnect") : t.cur /\ t.left <= RECONNECT_MS

\* C1 witness: a session silent for longer than the budget has been
\* force-closed by the health check while a re-armed watchdog is still pending
C1_Witness ==
  /\ phase = "mounted" /\ socket = 1 /\ readyState = "CLOSING"
  /\ msgAge > WATCHDOG_MS
  /\ \E t \in Pending("watchdog") : t.left > 0

\* C2: at most one reconnect timer is pending in every reachable state
C2_OneReconnectTimer == Cardinality(Pending("reconnect")) <= 1

\* C2 witness: the close of the current connection has been handled and its
\* single reconnect timer is pending and counting down
C2_Witness ==
  /\ phase = "mounted" /\ socket = 1 /\ readyState = "CLOSED"
  /\ Cardinality(Pending("reconnect")) = 1
  /\ \E t \in Pending("reconnect") : t.left < RECONNECT_MS

\* C3 (as claimed): displayData changes at most once per throttle interval,
\* i.e. every change comes at least THROTTLE_MS after the previous one
C3_OncePerThrottle ==
  [][displayData' # displayData => sinceDisplay >= THROTTLE_MS]_streamVars

\* C4: a data message that finds no promote timer pending is shown in the
\* same step and arms exactly one promote timer; a data message that finds
\* one pending only updates latestData and arms no second timer
C4_ImmediateThenHeld ==
  [][\A v \in Payloads : DataMessage(v) =>
        /\ latestData' = v
        /\ IF Pending("throttle") = {}
             THEN /\ displayData' = v
                  /\ Pending("throttle")' = {[kind |-> "throttle", cur |-> TRUE,
                                              left |-> THROTTLE_MS]}
             ELSE /\ displayData' = displayData
                  /\ Pending("throttle")' = Pending("throttle")]_streamVars

\* C4 witness: a message was held back behind a pending promote timer
C4_Witness ==
  /\ Open
  /\ latestData # 0 /\ latestData # displayData
  /\ Cardinality(Pending("throttle")) = 1

\* C13: connect() never leaves the socket it replaced with a handler
\* attached, so the event that socket still raises changes nothing of the
\* supervisor's state; and the replaced socket, closed by connect(), is not
\* a second open session
C13_SupersededIsInert ==
  /\ [](superseded # "attached")
  /\ [][SupersededClose =>
          UNCHANGED <<phase, isConnected, latestData, displayData, socket, readyState,
                      orphan, throttleTimer, reconnectTimer, watchdogTimer,
                      heartbeatTimer, healthCheckTimer, timers, msgAge>>]_vars

\* C13 witness: a foreground transition replaced a socket that had not
\* closed yet; the new socket is open while the close event of the old one
\* is still to come
C13_Witness ==
  /\ Open /\ isConnected
  /\ superseded = "detached"
  /\ Pending("reconnect") = {}

\* C14: an Open session never goes without a data message for longer than
\* the silence budget plus one health-check period, keepalive
\* acknowledgments or not: by then the health check has force-closed it
C14_DataSilenceIsFatal == Open => dataAge <= WATCHDOG_MS + HEALTHCHECK_MS

\* The pending timers that belong to a session
SessionTimers == Pending("watchdog") \cup Pending("heartbeat") \cup Pending("health")

\* The current socket has not opened yet: every session timer still pending
\* was armed for an earlier session
Connecting == socket = 1 /\ readyState = "CONNECTING"

\* C15: when a new session exists the watchdog, heartbeat and health-check
\* timers of the earlier sessions have been cancelled, and no such timer
\* fires against the new session and closes it
C15_NoStaleSessionTimer ==
  /\ [](Connecting => SessionTimers = {})
  /\ [][(WatchdogFire \/ HealthCheckFire) /\ Connecting => readyState' = readyState]_vars

MARKET_OPEN_MIN == 9 * 60 + 30
MARKET_CLOSE_MIN == 16 * 60
CLOSE_OFFSET == 30
QUOTE_INTERVAL_MS == 10 * 60 * 1000
HISTORY_INTERVAL_MS == 15 * 60 * 1000
OFFSET_MS == 2 * 60 * 1000
CATCHUP_MS == 45 * 60 * 1000
POLL_MS == 60000
DELAYED_SYMBOLS == 4
DELAYED_MS == 60000
SHORT_DELAY_MS == 2000
DEADZONE_SLACK_MS == 5000

\* Bounds of the model
SmallWatch == 2       \* size of the short watchlist the server may return
LargeWatch == 5       \* size of the long watchlist the server may return
MaxInFlight == 3      \* requests awaiting a response at one time
MaxCarry == 1         \* timer deadlines a request may stay unanswered across
MaxSelects == 1       \* clicks on a watchlist row that pass the gate
MaxReselects == 2     \* the same for a user who goes back and selects again
DrillMinutes == 1     \* minutes followed when the user drills in
OpeningMinutes == 7   \* minutes followed after a start around the opening
MaxMinutes == 12      \* minutes of wall-clock time followed after the start
NightMinutes == 48    \* minutes followed after a start in the evening

SEC_MS == 1000
MIN_MS == 60 * SEC_MS
DAY_MS == 24 * 60 * MIN_MS

\* The clock is the exchange's wall clock in ms, counted from a Monday
\* 00:00:00 ET; the program starts in the second week, so that a clock of 0
\* (no fetch yet) is older than every threshold, as with Date.now().
Instant(d, h, m, sec) == 7 * DAY_MS + d * DAY_MS + (h * 60 + m) * MIN_MS + sec * SEC_MS

\* The instants at which the widget is started: Tuesday just before the
\* open, Tuesday inside the dead zone, Tuesday at 16:01 and at 16:25 (the
\* buffer ends 16:30), Friday evening, Saturday noon, Sunday evening
StartInstants == {Instant(1, 9, 29, 30), Instant(1, 9, 32, 0), Instant(1, 16, 1, 0),
                  Instant(1, 16, 25, 0), Instant(4, 18, 0, 0), Instant(5, 12, 0, 0),
                  Instant(6, 18, 0, 0)}

\* The browser's local time zone as an offset from exchange time: a viewer in
\* New York, a viewer in Finland
TzOffsets == {0, 7 * 60 * MIN_MS}

Symbols == 1..LargeWatch
Watchlists == {1..SmallWatch, 1..LargeWatch}
Intervals == {"1min", "5min"}

\* The rows the user clicks: the first one (the symbols are interchangeable)
Clickable == {1}


----------------------------------------------------------------------------
\* The market calendar

\* Parts of the clock in New York time: weekday 0 = Mon .. 6 = Sun
EtWeekday(t) == (t \div DAY_MS) % 7
EtHour(t) == (t % DAY_MS) \div (60 * MIN_MS)
EtMinute(t) == ((t % DAY_MS) \div MIN_MS) % 60
EtSecond(t) == (t % MIN_MS) \div SEC_MS

\* Intl.DateTimeFormat weekday: 'short' in America/New_York
WeekdayName(t) == <<"Mon", "Tue", "Wed", "Thu", "Fri", "Sat", "Sun">>[EtWeekday(t) + 1]

\* Date.prototype.getDay() in the browser's local zone: 0 = Sunday .. 6 = Saturday
GetDay(t, z) == ((((t + z) \div DAY_MS) % 7) + 1) % 7

\* Variant of IsMarketOpen without the closing buffer
IsMarketOpenNoBuffer(t) ==
  LET currentMins == EtHour(t) * 60 + EtMinute(t)
  IN /\ WeekdayName(t) \notin {"Sat", "Sun"}
     /\ currentMins >= MARKET_OPEN_MIN
     /\ currentMins < MARKET_CLOSE_MIN

\* isMarketOpen (lines 278-299)
IsMarketOpen(t) ==
  LET currentMins == EtHour(t) * 60 + EtMinute(t)
  IN /\ WeekdayName(t) \notin {"Sat", "Sun"}
     /\ currentMins >= MARKET_OPEN_MIN
     /\ currentMins < MARKET_CLOSE_MIN + CLOSE_OFFSET

\* needsClosingFetch (lines 302-313) with lastQuoteFetchTime = q
NeedsClosingFetch(t, z, q) ==
  /\ ~IsMarketOpen(t)
  /\ GetDay(t, z) \notin {0, 6}
  /\ t - q > CATCHUP_MS

\* isDeadZone (lines 316-321)
IsDeadZone(t) == EtHour(t) = 9 /\ EtMinute(t) >= 30 /\ EtMinute(t) < 35

SchedulerChoiceQuietZone(t, z, q, h) ==
  IF ~IsMarketOpen(t) /\ ~NeedsClosingFetch(t, z, q) THEN "none"
  ELSE IF IsDeadZone(t) THEN "none"
  ELSE IF t - q >= QUOTE_INTERVAL_MS THEN "quotes"
  ELSE IF t - h >= HISTORY_INTERVAL_MS /\ t - q >= OFFSET_MS THEN "history"
  ELSE "none"

SchedulerChoiceHistoryFirst(t, z, q, h) ==
  IF ~IsMarketOpen(t) /\ ~NeedsClosingFetch(t, z, q) THEN "none"
  ELSE IF t - h >= HISTORY_INTERVAL_MS /\ t - q >= OFFSET_MS /\ ~IsDeadZone(t) THEN "history"
  ELSE IF t - q >= QUOTE_INTERVAL_MS THEN "quotes"
  ELSE "none"

\* Variant of SchedulerChoice without the safety offset
SchedulerChoiceNoOffset(t, z, q, h) ==
  IF ~IsMarketOpen(t) /\ ~NeedsClosingFetch(t, z, q) THEN "none"
  ELSE IF t - q >= QUOTE_INTERVAL_MS THEN "quotes"
  ELSE IF t - h >= HISTORY_INTERVAL_MS /\ ~IsDeadZone(t) THEN "history"
  ELSE "none"

\* The decision of runScheduler (lines 422-445) at time t with the clocks
\* q (quotes) and h (history): which fetch it calls
SchedulerChoice(t, z, q, h) ==
  IF ~IsMarketOpen(t) /\ ~NeedsClosingFetch(t, z, q) THEN "none"
  ELSE IF t - q >= QUOTE_INTERVAL_MS THEN "quotes"
  ELSE IF t - h >= HISTORY_INTERVAL_MS /\ t - q >= OFFSET_MS /\ ~IsDeadZone(t) THEN "history"
  ELSE "none"

Max(a, b) == IF a > b THEN a ELSE b

\* Variant of StartupDelay that does not look at the dead zone
StartupDelayNoDeadZone(t, n) ==
  IF n >= DELAYED_SYMBOLS THEN DELAYED_MS ELSE SHORT_DELAY_MS

\* The delay of the first history fetch (lines 459-481) for n symbols
StartupDelay(t, n) ==
  LET isDelayed == n >= DELAYED_SYMBOLS
      minutesWait == 35 - EtMinute(t)
      secondsWait == 60 - EtSecond(t)
      msUntilOpen == (minutesWait - 1) * 60 * 1000 + secondsWait * 1000 + DEADZONE_SLACK_MS
  IN IF IsDeadZone(t)
       THEN IF isDelayed THEN Max(msUntilOpen, DELAYED_MS) ELSE msUntilOpen
       ELSE IF isDelayed THEN DELAYED_MS ELSE SHORT_DELAY_MS

----------------------------------------------------------------------------
\* Requests

\* The request fetchQuotes / fetchHistory(forced) sends (lines 207-217,
\* 236-248) when the watchlist is wl and the selection is sel: none for an
\* empty watchlist.  cont names what awaits it: "mount", "select" or "none";
\* grp tells the selectStock calls apart (0 for the others).
Request(kind, forced, wl, sel, cont, grp) ==
  IF wl = {} THEN {}
  ELSE {[kind |-> kind, forced |-> forced, cont |-> cont, grp |-> grp, age |-> 0,
         syms |-> IF forced /\ sel # 0 THEN {sel} ELSE wl,
         interval |-> IF kind = "quotes" THEN "-"
                      ELSE IF forced /\ sel # 0 THEN "1min" ELSE "5min"]}

\* The requests rs join those in flight (a bag: two equal requests are two requests)
Send(inf, rs) == inf (+) SetToBag(rs)

CanSend(rs) == BagCardinality(inflight) + Cardinality(rs) <= MaxInFlight

\* What the last handler issued, as the observer keeps it
Issued(rs) == {[kind |-> r.kind, forced |-> r.forced, syms |-> r.syms,
                interval |-> r.interval] : r \in rs}

\* The request runScheduler sends for its choice c
SchedulerRequest(c, wl, sel) ==
  IF c = "none" THEN {} ELSE Request(c, FALSE, wl, sel, "none", 0)

StampsForcedToo(forced, ok) == ok

\* Variant of Stamps in which a rejected unforced fetch stamps too
StampsFailedToo(forced, ok) == ~forced

\* Does a completed unforced fetch stamp its clock (lines 227, 261)
Stamps(forced, ok) == ~forced /\ ok

\* lastQuoteFetchTime after a request completes at time t
QuoteClockAfter(r, ok, t, q) == IF r.kind = "quotes" /\ Stamps(r.forced, ok) THEN t ELSE q

\* lastHistoryFetchTime after a request completes at time t
HistoryClockAfter(r, ok, t, h) == IF r.kind = "history" /\ Stamps(r.forced, ok) THEN t ELSE h

\* Variant of QuotesAfter that replaces the map by the response
QuotesReplaced(r, ok, qs) ==
  IF r.kind = "quotes" /\ ok
    THEN [s \in Symbols |-> IF s \in r.syms
                              THEN (IF Cardinality(r.syms) = 1 /\ r.forced THEN 2 ELSE 1)
                              ELSE 0]
    ELSE qs

\* stockQuotes after a request completes: results merged by symbol (lines 220-224)
QuotesAfter(r, ok, qs) ==
  IF r.kind = "quotes" /\ ok
    THEN [s \in Symbols |-> IF s \in r.syms
                              THEN (IF Cardinality(r.syms) = 1 /\ r.forced THEN 2 ELSE 1)
                              ELSE qs[s]]
    ELSE qs

\* Variant of HistoryAfter that keeps a single bucket for both resolutions
HistoryIntoBackground(r, ok, hs) ==
  IF r.kind = "history" /\ ok
    THEN [hs EXCEPT !["5min"] = [s \in Symbols |-> IF s \in r.syms THEN 1 ELSE @[s]]]
    ELSE hs

\* stockHistory after a request completes: merged into its interval's bucket
\* (lines 251-259)
HistoryAfter(r, ok, hs) ==
  IF r.kind = "history" /\ ok
    THEN [hs EXCEPT ![r.interval] = [s \in Symbols |-> IF s \in r.syms THEN 1 ELSE @[s]]]
    ELSE hs

\* isInitialHistoryLoaded after a request completes (lines 265-269)
GateAfter(r, ok, g) == IF r.kind = "history" /\ ~r.forced THEN TRUE ELSE g

----------------------------------------------------------------------------
\* Initial state: the script has run, onMounted has not

SchedInitAt(t, z, span) ==
  /\ now = t
  /\ tz = z
  /\ startAt = t
  /\ endAt = t + span * MIN_MS
  /\ mpc = "setup"
  /\ alive = TRUE
  /\ stockWatchlist = {}
  /\ stockQuotes = [s \in Symbols |-> 0]
  /\ stockHistory = [i \in Intervals |-> [s \in Symbols |-> 0]]
  /\ selectedSymbol = 0
  /\ isLoading = FALSE
  /\ isDetailLoading = FALSE
  /\ isInitialHistoryLoaded = FALSE
  /\ lastQuoteFetchTime = 0
  /\ lastHistoryFetchTime = 0
  /\ schedulerTimer = 0
  /\ tickAt = 0
  /\ histTimerAt = 0
  /\ inflight = EmptyBag
  /\ nSelects = 0
  /\ lastOp = "init"
  /\ issued = {}

SchedInit == \E t \in StartInstants, z \in TzOffsets : SchedInitAt(t, z, MaxMinutes)

----------------------------------------------------------------------------
\* Startup

\* onMounted up to its first await (lines 453-455)
MountStart ==
  /\ mpc = "setup"
  /\ mpc' = "watchlist"
  /\ isLoading' = TRUE
  /\ lastOp' = "mount"
  /\ issued' = {}
  /\ UNCHANGED <<now, tz, startAt, endAt, nSelects, alive, stockWatchlist, stockQuotes, stockHistory,
                 selectedSymbol, isDetailLoading, isInitialHistoryLoaded,
                 lastQuoteFetchTime, lastHistoryFetchTime, schedulerTimer, tickAt,
                 histTimerAt, inflight>>
  /\ UNCHANGED streamVars

\* Variant of MountTail that leaves the loading indicator on
MountTailLoading(wl, q, h, inf) ==
  LET rs == SchedulerRequest(SchedulerChoice(now, tz, q, h), wl, selectedSymbol)
  IN /\ mpc' = "done"
     /\ isLoading' = TRUE
     /\ histTimerAt' = now + StartupDelay(now, Cardinality(wl))
     /\ schedulerTimer' = 1
     /\ tickAt' = now + POLL_MS
     /\ inflight' = Send(inf, rs)
     /\ issued' = Issued(rs)

\* The rest of onMounted once the initial fetchQuotes has settled (lines
\* 457-483), with the watchlist wl, the clocks q and h and the requests inf
\* then in flight:
\* the history timer is set and startPolling runs the scheduler once and
\* starts the interval
MountTail(wl, q, h, inf) ==
  LET rs == SchedulerRequest(SchedulerChoice(now, tz, q, h), wl, selectedSymbol)
  IN /\ mpc' = "done"
     /\ isLoading' = FALSE
     /\ histTimerAt' = now + StartupDelay(now, Cardinality(wl))
     /\ schedulerTimer' = 1
     /\ tickAt' = now + POLL_MS
     /\ inflight' = Send(inf, rs)
     /\ issued' = Issued(rs)

\* fetchWatchlist settles (lines 192-203) and onMounted goes on to
\* fetchQuotes (line 457); with an empty watchlist fetchQuotes returns at
\* once and onMounted runs to its end
WatchlistDone(ok, wl) ==
  /\ mpc = "watchlist"
  /\ stockWatchlist' = IF ok THEN wl ELSE stockWatchlist
  /\ lastOp' = "watchlist"
  /\ IF stockWatchlist' = {}
       THEN MountTail(stockWatchlist', lastQuoteFetchTime, lastHistoryFetchTime, inflight)
       ELSE /\ mpc' = "quotes"
            /\ inflight' = Send(inflight, Request("quotes", FALSE, stockWatchlist',
                                                  selectedSymbol, "mount", 0))
            /\ issued' = Issued(Request("quotes", FALSE, stockWatchlist',
                                        selectedSymbol, "mount", 0))
            /\ UNCHANGED <<isLoading, histTimerAt, schedulerTimer, tickAt>>
  /\ UNCHANGED <<now, tz, startAt, endAt, nSelects, alive, stockQuotes, stockHistory, selectedSymbol,
                 isDetailLoading, isInitialHistoryLoaded, lastQuoteFetchTime,
                 lastHistoryFetchTime>>
  /\ UNCHANGED streamVars

----------------------------------------------------------------------------
\* Responses

\* A request settles: fulfilled (ok) or rejected.  What awaited it goes on:
\* onMounted after the initial quotes, selectStock after both forced fetches.
Complete(r, ok) ==
  LET rest == inflight (-) SetToBag({r})
      q == QuoteClockAfter(r, ok, now, lastQuoteFetchTime)
      h == HistoryClockAfter(r, ok, now, lastHistoryFetchTime)
  IN /\ BagIn(r, inflight)
     /\ stockQuotes' = QuotesAfter(r, ok, stockQuotes)
     /\ stockHistory' = HistoryAfter(r, ok, stockHistory)
     /\ lastQuoteFetchTime' = q
     /\ lastHistoryFetchTime' = h
     /\ isInitialHistoryLoaded' = GateAfter(r, ok, isInitialHistoryLoaded)
     /\ isDetailLoading' = IF r.cont = "select" /\ ~\E y \in BagToSet(rest) : y.grp = r.grp
                             THEN FALSE ELSE isDetailLoading
     /\ lastOp' = IF ok THEN "response" ELSE "rejection"
     /\ IF r.cont = "mount"
          THEN MountTail(stockWatchlist, q, h, rest)
          ELSE /\ inflight' = rest
               /\ issued' = {}
               /\ UNCHANGED <<mpc, isLoading, histTimerAt, schedulerTimer, tickAt>>
     /\ UNCHANGED <<now, tz, startAt, endAt, nSelects, alive, stockWatchlist, selectedSymbol>>
  /\ UNCHANGED streamVars

----------------------------------------------------------------------------
\* The scheduler

\* runScheduler from the interval (lines 422-445, 450)
SchedulerTick ==
  LET rs == SchedulerRequest(SchedulerChoice(now, tz, lastQuoteFetchTime,
                                             lastHistoryFetchTime),
                             stockWatchlist, selectedSymbol)
  IN /\ tickAt # 0 /\ tickAt = now
     /\ CanSend(rs)
     /\ tickAt' = now + POLL_MS
     /\ inflight' = Send(inflight, rs)
     /\ issued' = Issued(rs)
     /\ lastOp' = "tick"
     /\ UNCHANGED <<now, tz, startAt, endAt, nSelects, mpc, alive, stockWatchlist, stockQuotes, stockHistory,
                    selectedSymbol, isLoading, isDetailLoading, isInitialHistoryLoaded,
                    lastQuoteFetchTime, lastHistoryFetchTime, schedulerTimer, histTimerAt>>
  /\ UNCHANGED streamVars

\* The startup timer's callback: fetchHistory() (lines 474-480)
HistoryTimerFire ==
  LET rs == Request("history", FALSE, stockWatchlist, selectedSymbol, "none", 0)
  IN /\ histTimerAt # 0 /\ histTimerAt = now
     /\ CanSend(rs)
     /\ histTimerAt' = 0
     /\ inflight' = Send(inflight, rs)
     /\ issued' = Issued(rs)
     /\ lastOp' = "history-timer"
     /\ UNCHANGED <<now, tz, startAt, endAt, nSelects, mpc, alive, stockWatchlist, stockQuotes, stockHistory,
                    selectedSymbol, isLoading, isDetailLoading, isInitialHistoryLoaded,
                    lastQuoteFetchTime, lastHistoryFetchTime, schedulerTimer, tickAt>>
  /\ UNCHANGED streamVars

\* onUnmounted (lines 486-488)
SchedUnmount ==
  /\ alive /\ mpc # "setup"
  /\ alive' = FALSE
  /\ tickAt' = IF schedulerTimer # 0 THEN 0 ELSE tickAt
  /\ lastOp' = "unmount"
  /\ issued' = {}
  /\ UNCHANGED <<now, tz, startAt, endAt, nSelects, mpc, stockWatchlist, stockQuotes, stockHistory,
                 selectedSymbol, isLoading, isDetailLoading, isInitialHistoryLoaded,
                 lastQuoteFetchTime, lastHistoryFetchTime, schedulerTimer, histTimerAt,
                 inflight>>
  /\ UNCHANGED streamVars

----------------------------------------------------------------------------
\* The user

GateHoldsNever(loaded) == FALSE

\* The gatekeeper test of selectStock (line 324)
GateHolds(loaded) == ~loaded

\* selectStock(symbol) (lines 323-335), for a user who makes at most budget
\* selections that pass the gate
SelectStockWithin(symbol, budget) ==
  LET grp == CHOOSE g \in 1..(MaxInFlight + 1) : \A y \in BagToSet(inflight) : y.grp # g
      rs == Request("quotes", TRUE, stockWatchlist, symbol, "select", grp)
              \cup Request("history", TRUE, stockWatchlist, symbol, "select", grp)
  IN /\ alive /\ mpc # "setup"
     /\ lastOp' = "select"
     /\ IF GateHolds(isInitialHistoryLoaded)
          THEN /\ issued' = {}
               /\ UNCHANGED <<selectedSymbol, isDetailLoading, inflight, nSelects>>
          ELSE /\ CanSend(rs)
               /\ nSelects < budget
               /\ nSelects' = nSelects + 1
               /\ selectedSymbol' = symbol
               /\ isDetailLoading' = (rs # {})
               /\ inflight' = Send(inflight, rs)
               /\ issued' = Issued(rs)
     /\ UNCHANGED <<now, tz, startAt, endAt, mpc, alive, stockWatchlist, stockQuotes, stockHistory,
                    isLoading, isInitialHistoryLoaded, lastQuoteFetchTime,
                    lastHistoryFetchTime, schedulerTimer, tickAt, histTimerAt>>
  /\ UNCHANGED streamVars

SelectStock(symbol) == SelectStockWithin(symbol, MaxSelects)

\* clearSelection (lines 337-339)
ClearSelection ==
  /\ alive /\ selectedSymbol # 0
  /\ selectedSymbol' = 0
  /\ lastOp' = "clear"
  /\ issued' = {}
  /\ UNCHANGED <<now, tz, startAt, endAt, nSelects, mpc, alive, stockWatchlist, stockQuotes, stockHistory,
                 isLoading, isDetailLoading, isInitialHistoryLoaded, lastQuoteFetchTime,
                 lastHistoryFetchTime, schedulerTimer, tickAt, histTimerAt, inflight>>
  /\ UNCHANGED streamVars

----------------------------------------------------------------------------
\* Time

PendingDeadlines == {d \in {tickAt, histTimerAt} : d # 0}

RECURSIVE SetMin(_)
SetMin(S) == LET x == CHOOSE y \in S : TRUE
             IN IF S = {x} THEN x ELSE Min(x, SetMin(S \ {x}))

Aged(r) == [r EXCEPT !.age = @ + 1]

\* The clock moves on to the next timer deadline; a timer that is due runs first
Advance ==
  /\ PendingDeadlines # {}
  /\ \A d \in PendingDeadlines : d > now
  /\ \A r \in BagToSet(inflight) : r.age < MaxCarry
  /\ inflight' = [a \in {Aged(r) : r \in BagToSet(inflight)} |->
                    CopiesIn([a EXCEPT !.age = @ - 1], inflight)]
  /\ SetMin(PendingDeadlines) <= endAt
  /\ now' = SetMin(PendingDeadlines)
  /\ lastOp' = "advance"
  /\ issued' = {}
  /\ UNCHANGED <<tz, startAt, endAt, nSelects, mpc, alive, stockWatchlist, stockQuotes, stockHistory,
                 selectedSymbol, isLoading, isDetailLoading, isInitialHistoryLoaded,
                 lastQuoteFetchTime, lastHistoryFetchTime, schedulerTimer, tickAt,
                 histTimerAt>>
  /\ UNCHANGED streamVars

SchedNext ==
  \/ MountStart
  \/ \E ok \in BOOLEAN, wl \in Watchlists : WatchlistDone(ok, wl)
  \/ \E r \in BagToSet(inflight), ok \in BOOLEAN : Complete(r, ok)
  \/ SchedulerTick
  \/ HistoryTimerFire
  \/ SchedUnmount
  \/ Advance

\* The scheduler with a user who clicks rows of the list
DrillNext ==
  \/ SchedNext
  \/ \E symbol \in Clickable : SelectStock(symbol)
  \/ ClearSelection

----------------------------------------------------------------------------
\* Specifications: each component runs with the other one at rest

SchedParked == SchedInitAt(Instant(0, 0, 0, 0), 0, 0)

\* The stream supervisor runs, the watchlist widget is not started
StreamStart == StreamInit /\ SchedParked

StreamSpec == StreamStart /\ [][StreamNext]_vars

\* The watchlist widget runs, the stream supervisor is not mounted
SchedStart == SchedInit /\ StreamInit

\* The stream supervisor in the foreground, data silence observed
KeepaliveStart == StreamInitObserving(0) /\ SchedParked

KeepaliveSpec == KeepaliveStart /\ [][KeepaliveNext]_vars

\* The stream supervisor in the foreground, the rolling buffers followed
PayloadStart == StreamInitFollowing(-1, 0) /\ SchedParked

PayloadSpec == PayloadStart /\ [][PayloadNext]_vars

SchedSpec == SchedStart /\ [][SchedNext]_vars

\* The drill-in path: a widget started on Tuesday at 16:01 (the market still
\* counts as open) by a viewer in New York
DrillInit == SchedInitAt(Instant(1, 16, 1, 0), 0, DrillMinutes)

DrillStart == DrillInit /\ StreamInit

DrillSpec == DrillStart /\ [][DrillNext]_vars

\* The evening after the close: a widget started on Tuesday at 17:00 by a
\* viewer in New York and followed for longer than the catch-up threshold
NightInit == SchedInitAt(Instant(1, 17, 0, 0), 0, NightMinutes)

NightStart == NightInit /\ StreamInit

NightSpec == NightStart /\ [][SchedNext]_vars

\* Either widget on its own: the stream supervisor with the watchlist widget
\* at rest, or the watchlist widget with its user and the supervisor at rest
SchedAtRest == now = Instant(0, 0, 0, 0)

SnapshotStart == PayloadStart \/ DrillStart

SnapshotNext ==
  \/ SchedAtRest /\ PayloadNext
  \/ ~SchedAtRest /\ DrillNext

SnapshotSpec == SnapshotStart /\ [][SnapshotNext]_vars

----------------------------------------------------------------------------
\* Properties of the poll scheduler

\* What a handler that sends one unforced full-batch fetch leaves in `issued`
FullBatch(kind) == [kind |-> kind, forced |-> FALSE, syms |-> stockWatchlist,
                    interval |-> IF kind = "quotes" THEN "-" ELSE "5min"]

QuoteIsDue == now - lastQuoteFetchTime >= QUOTE_INTERVAL_MS
HistoryIsDue == now - lastHistoryFetchTime >= HISTORY_INTERVAL_MS
Clocks == <<lastQuoteFetchTime, lastHistoryFetchTime>>
OneMoreInFlight == BagCardinality(inflight') = BagCardinality(inflight) + 1

\* C5 as stated: on any tick where the market is open and the last full quote
\* fetch is at least QUOTE_INTERVAL_MS old, the tick issues exactly one
\* full-batch quote fetch and no history fetch
C5_TickFetchesQuotes ==
  [][SchedulerTick /\ IsMarketOpen(now) /\ QuoteIsDue
       => issued' = {FullBatch("quotes")} /\ OneMoreInFlight]_vars

\* C5 as the code has it: on such a tick with a watchlist that is not empty the
\* tick issues exactly one full-batch quote fetch and no history fetch, also
\* when the history interval has elapsed; with an empty watchlist it issues
\* no request
C5_TickFetchesQuotesOfWatchlist ==
  [][SchedulerTick /\ IsMarketOpen(now) /\ QuoteIsDue
       => IF stockWatchlist # {}
            THEN issued' = {FullBatch("quotes")} /\ OneMoreInFlight
            ELSE issued' = {} /\ inflight' = inflight]_vars

\* A tick ten minutes after a successful quote fetch, the history interval
\* elapsed as well and the dead zone over, has issued the quote fetch alone
C5_Witness ==
  /\ lastOp = "tick" /\ IsMarketOpen(now) /\ ~IsDeadZone(now)
  /\ lastQuoteFetchTime > 0 /\ QuoteIsDue /\ HistoryIsDue
  /\ stockWatchlist # {}
  /\ issued = {FullBatch("quotes")}

\* C6: on any tick where the market is not open and the last successful full
\* quote fetch is not older than the catch-up threshold, or the exchange's day
\* is a Saturday or a Sunday, the tick issues no fetch and leaves both clocks
\* unchanged
C6_QuietTick ==
  [][SchedulerTick /\ (\/ ~IsMarketOpen(now) /\ now - lastQuoteFetchTime <= CATCHUP_MS
                       \/ WeekdayName(now) \in {"Sat", "Sun"})
       => issued' = {} /\ inflight' = inflight /\ UNCHANGED Clocks]_vars

\* C7: while the exchange clock is inside the dead zone no background path
\* (scheduler run or startup timer) issues an unforced full-batch history fetch
C7_NoHistoryInDeadZone ==
  IsDeadZone(now) => \A r \in issued : ~(r.kind = "history" /\ ~r.forced)

\* C8: a forced fetch that settles, fulfilled or rejected, changes neither
\* clock; a clock changes only when an unforced full-batch fetch is fulfilled
C8_ForcedNeverStamps ==
  [][/\ \A r \in BagToSet(inflight), ok \in BOOLEAN :
          Complete(r, ok) /\ r.forced => UNCHANGED Clocks
     /\ Clocks' # Clocks =>
          \E r \in BagToSet(inflight) :
             ~r.forced /\ r.syms = stockWatchlist /\ Complete(r, TRUE)]_vars

\* Both forced fetches of a selection have settled, the quote one fulfilled,
\* and the quote clock still holds the time of the earlier unforced fetch
C8_Witness ==
  /\ selectedSymbol # 0 /\ nSelects > 0 /\ ~isDetailLoading
  /\ lastOp \in {"response", "rejection"}
  /\ \A r \in BagToSet(inflight) : ~r.forced
  /\ stockQuotes[selectedSymbol] = 2
  /\ lastQuoteFetchTime > 0 /\ lastQuoteFetchTime < now

\* C9: selectStock called while isInitialHistoryLoaded is false changes
\* neither the selection, the detail loader, the quotes, the history nor the
\* clocks, and issues no request
C9_GatedSelectIsNoop ==
  [][\A symbol \in Clickable :
       SelectStock(symbol) /\ ~isInitialHistoryLoaded
         => /\ UNCHANGED <<selectedSymbol, isDetailLoading, stockQuotes, stockHistory,
                           lastQuoteFetchTime, lastHistoryFetchTime, inflight>>
            /\ issued' = {}]_vars

\* A row was clicked after startup, the watchlist and its quotes shown, while
\* the gate was still closed
C9_Witness ==
  /\ lastOp = "select" /\ ~isInitialHistoryLoaded
  /\ mpc = "done" /\ stockWatchlist # {} /\ stockQuotes[1] = 1
  /\ histTimerAt # 0

\* The scenario of C10: started on a Tuesday at 09:32 ET, the long watchlist
C10_Scenario ==
  startAt = Instant(1, 9, 32, 0) /\ Cardinality(stockWatchlist) = LargeWatch

\* C10 as stated: in the scenario no tick inside the dead zone with both
\* clocks at zero issues any fetch, and the first tick at or after 09:35:00
\* issues the quote fetch
C10_NoFetchUntilDeadZoneEnds ==
  [][SchedulerTick /\ C10_Scenario
       => /\ IsDeadZone(now) /\ Clocks = <<0, 0>> => issued' = {} /\ inflight' = inflight
          /\ now = Instant(1, 9, 35, 0) => issued' = {FullBatch("quotes")}]_vars

\* C10 as the code has it: in the scenario a tick inside the dead zone with
\* the quote clock at zero issues the full-batch quote fetch, no tick inside
\* the dead zone issues a history fetch, and the tick at 09:35:00 issues the
\* quote fetch exactly when the quote clock is still at zero
C10_QuotesNotGatedByDeadZone ==
  [][SchedulerTick /\ C10_Scenario
       => /\ IsDeadZone(now) =>
                /\ lastQuoteFetchTime = 0 => issued' = {FullBatch("quotes")} /\ OneMoreInFlight
                /\ \A r \in issued' : r.kind # "history"
          /\ now = Instant(1, 9, 35, 0) =>
                (lastQuoteFetchTime = 0 <=> issued' = {FullBatch("quotes")})]_vars

\* A tick at 09:33 or 09:34 with both clocks at zero has issued the quote fetch
C10_Witness ==
  /\ C10_Scenario /\ lastOp = "tick" /\ IsDeadZone(now)
  /\ Clocks = <<0, 0>>
  /\ issued = {FullBatch("quotes")}

\* The exchange clock is inside the closing buffer of a weekday: 16:00 up to 16:30
InClosingBuffer ==
  /\ WeekdayName(now) \notin {"Sat", "Sun"}
  /\ EtHour(now) = 16 /\ EtMinute(now) < CLOSE_OFFSET

\* C11: on a tick inside the closing buffer of a weekday isMarketOpen is
\* true, needsClosingFetch is false and the quote fetch is decided by the interval rule alone: the tick issues the full-batch quote
\* fetch exactly when the last quote fetch is QUOTE_INTERVAL_MS old (and there
\* is a watchlist), also when that is far less than the catch-up threshold;
\* at 16:10 with lastQuoteFetchTime = 16:01 it issues none
C11_BufferUsesIntervalRule ==
  [][SchedulerTick /\ InClosingBuffer
       => /\ IsMarketOpen(now) /\ ~NeedsClosingFetch(now, tz, lastQuoteFetchTime)
          /\ FullBatch("quotes") \in issued' <=> QuoteIsDue /\ stockWatchlist # {}
          /\ now = Instant(1, 16, 10, 0) /\ lastQuoteFetchTime = Instant(1, 16, 1, 0)
                => FullBatch("quotes") \notin issued']_vars

\* The tick at 16:11 on Tuesday, the last quote fetch stamped 16:01: ten
\* minutes old, below the catch-up threshold, and the quote fetch is issued
C11_Witness ==
  /\ lastOp = "tick" /\ now = Instant(1, 16, 11, 0)
  /\ lastQuoteFetchTime = Instant(1, 16, 1, 0)
  /\ now - lastQuoteFetchTime <= CATCHUP_MS
  /\ issued = {FullBatch("quotes")}

\* C12: isConnected is true exactly while the current socket has signalled
\* open and no close event, replacing connect() or teardown has been handled
\* since: it is true when the socket is open, and false when there is no
\* socket, the socket is connecting, or it has been closed or released
C12_ConnectedIffLive ==
  /\ Open => isConnected
  /\ isConnected => socket = 1 /\ readyState \in {"OPEN", "CLOSING"}

\* C16: a rejected full-batch fetch leaves both clocks and the stored quotes
\* and history unchanged and does not stop the interval; while the widget is
\* mounted the interval keeps running, and while no quote fetch has succeeded
\* every tick with the market open attempts the quote fetch again
C16_FailedFetchIsRetried ==
  /\ [](alive /\ mpc = "done" => tickAt # 0 /\ schedulerTimer # 0)
  /\ [][/\ \A r \in BagToSet(inflight) :
             Complete(r, FALSE) /\ ~r.forced
               => /\ UNCHANGED <<Clocks, stockQuotes, stockHistory>>
                  /\ mpc = "done" => UNCHANGED <<tickAt, schedulerTimer>>
        /\ SchedulerTick /\ IsMarketOpen(now) /\ lastQuoteFetchTime = 0 /\ stockWatchlist # {}
             => issued' = {FullBatch("quotes")}]_vars

\* Two minutes after the start every quote fetch so far was rejected (the
\* clock is still zero, nothing else is in flight) and the tick has issued
\* the quote fetch once more
C16_Witness ==
  /\ lastOp = "tick" /\ now >= startAt + 2 * POLL_MS
  /\ lastQuoteFetchTime = 0 /\ stockQuotes = [s \in Symbols |-> 0]
  /\ issued = {FullBatch("quotes")}
  /\ BagCardinality(inflight) = 1

\* C17: whatever the order in which a forced single-symbol fetch and a
\* background full-batch fetch settle, a completion changes only the entries
\* of the symbols of its own response, in the quote map or in the history
\* bucket of its own interval; every other entry stays as it was
C17_MergeBySymbol ==
  [][\A r \in BagToSet(inflight), ok \in BOOLEAN :
       Complete(r, ok) =>
         /\ \A s \in Symbols \ r.syms :
              /\ stockQuotes'[s] = stockQuotes[s]
              /\ \A i \in Intervals : stockHistory'[i][s] = stockHistory[i][s]
         /\ r.kind = "history" => stockQuotes' = stockQuotes
         /\ r.kind = "quotes" => stockHistory' = stockHistory
         /\ \A i \in Intervals \ {r.interval} : stockHistory'[i] = stockHistory[i]]_vars

\* The forced fetches of the selected symbol have been merged while a
\* background fetch is in flight: the other symbol keeps its batch quote and
\* its 5-minute history
C17_Witness ==
  /\ lastOp = "response" /\ selectedSymbol = 1
  /\ stockQuotes[1] = 2 /\ stockQuotes[2] = 1
  /\ stockHistory["1min"][1] = 1 /\ stockHistory["5min"][2] = 1
  /\ \E r \in BagToSet(inflight) : ~r.forced

\* The state a fetch writes when it completes
FetchState == <<stockQuotes, stockHistory, lastQuoteFetchTime, lastHistoryFetchTime,
                isInitialHistoryLoaded>>

\* C18: a fetch that settles after onUnmounted has run changes neither the
\* quotes, the history, the clocks nor the history gate
C18_NoWriteAfterTeardown ==
  [][\A r \in BagToSet(inflight), ok \in BOOLEAN :
       Complete(r, ok) /\ ~alive => UNCHANGED FetchState]_vars

\* C19: once onUnmounted has run no scheduler tick and no startup timer runs
\* and no handler issues a fetch
C19_SilentAfterTeardown ==
  ~alive => lastOp \notin {"tick", "history-timer"} /\ issued = {}

\* The exchange's day is a weekday, as isMarketOpen tests it
ExchangeWeekday == WeekdayName(now) \notin {"Sat", "Sun"}

\* The browser's day is a weekday, as needsClosingFetch tests it
LocalWeekday == GetDay(now, tz) \notin {0, 6}

\* C21: on a tick where the market is closed, the exchange's day is a
\* weekday and the last successful full quote fetch is more than CATCHUP_MS
\* old, the tick issues the full-batch quote fetch (given a watchlist); and
\* the weekday test of the catch-up rule is the exchange-calendar weekday test
\* of the market-open rule
C21_CatchUpOnExchangeWeekday ==
  /\ [](LocalWeekday <=> ExchangeWeekday)
  /\ [][SchedulerTick /\ ~IsMarketOpen(now) /\ ExchangeWeekday
          /\ now - lastQuoteFetchTime > CATCHUP_MS /\ stockWatchlist # {}
        => FullBatch("quotes") \in issued']_vars

\* The length of the shortest period during which the market stays closed
NIGHT_MS == DAY_MS - (MARKET_CLOSE_MIN + CLOSE_OFFSET - MARKET_OPEN_MIN) * MIN_MS

\* The quote clock was stamped by a fetch a scheduler tick issued during the
\* market-closed period that still lasts: the fetch of onMounted stamps the
\* clock with the instant of the start
CaughtUp ==
  /\ lastQuoteFetchTime > startAt
  /\ ~IsMarketOpen(lastQuoteFetchTime) /\ ~IsMarketOpen(now)
  /\ now - lastQuoteFetchTime < NIGHT_MS

\* C22: once a catch-up quote fetch has succeeded, no tick issues a quote
\* fetch for as long as the market stays closed
C22_CatchUpOnce ==
  [][SchedulerTick /\ CaughtUp => \A r \in issued' : r.kind # "quotes"]_vars

\* C23: displayData, once set, is never null again, and a data message
\* always leaves it set; a stored quote or history of a symbol is never
\* removed; isLoading is true only from the start of onMounted until its
\* quote fetch has settled, with nothing stored yet; whatever closes,
\* reconnects, keepalives, unusable payloads and rejected fetches occur
C23_SnapshotKept ==
  /\ [](isLoading => /\ \A s \in Symbols : stockQuotes[s] = 0
                     /\ \A i \in Intervals, s \in Symbols : stockHistory[i][s] = 0)
  /\ [][/\ displayData # 0 => displayData' # 0
        /\ \A v \in Payloads : DataMessage(v) => displayData' # 0
        /\ \A s \in Symbols :
             /\ stockQuotes[s] # 0 => stockQuotes'[s] # 0
             /\ \A i \in Intervals : stockHistory[i][s] # 0 => stockHistory'[i][s] # 0
        /\ isLoading' => isLoading \/ MountStart]_vars

\* The supervisor is connecting again after a close; the last payload was
\* null and the promote timer has fired since: displayData still holds the
\* last sensor record
C23_Witness ==
  /\ Connecting /\ ~isConnected
  /\ latestData = 0 /\ displayData # 0
  /\ throttleTimer = 0 /\ Pending("throttle") = {}

\* C24: a keepalive acknowledgment re-arms the watchdog with the full
\* budget and changes nothing else: not latestData, displayData, the promote
\* timer, the rolling buffers, isConnected, the socket, the other timers or
\* lastMessageAt
C24_PongOnlyResetsWatchdog ==
  [][QuietMessage =>
       /\ \E t \in Pending("watchdog")' : t.cur /\ t.left = WATCHDOG_MS
       /\ UNCHANGED <<phase, isConnected, latestData, displayData, tempHistory, socket,
                      readyState, throttleTimer, reconnectTimer, msgAge>>
       /\ \A k \in {"throttle", "reconnect", "heartbeat", "health"} :
            Pending(k)' = Pending(k)]_vars

\* C25: a message whose payload ends in the handler's catch block, because
\* JSON.parse throws or because it yields null, changes nothing: not
\* latestData, displayData, the promote timer, the rolling buffers, the
\* watchdog deadline, lastMessageAt or isConnected, and the session stays Open
C25_ParseErrorIsIgnored ==
  [][QuietMessage \/ NullMessage =>
       /\ UNCHANGED <<isConnected, latestData, displayData, tempHistory, throttleTimer,
                      timers, msgAge>>
       /\ Open']_vars

\* C26: a foreground transition while the session is Open leaves the socket
\* open and in place, arms no reconnect timer and re-arms the watchdog with
\* the full budget; isConnected, latestData, displayData, lastMessageAt, the
\* promote timer and the heartbeat and health-check timers are unchanged
C26_ForegroundWhileOpen ==
  [][Visible /\ Open =>
       /\ Open' /\ superseded' = superseded
       /\ Pending("reconnect")' = Pending("reconnect")
       /\ {t \in Pending("watchdog")' : t.cur} =
             {[kind |-> "watchdog", cur |-> TRUE, left |-> WATCHDOG_MS]}
       /\ UNCHANGED <<isConnected, latestData, displayData, msgAge, throttleTimer,
                      reconnectTimer>>
       /\ \A k \in {"throttle", "heartbeat", "health"} : Pending(k)' = Pending(k)]_vars

\* The session is open and has been silent for a while, yet its watchdog has
\* the full budget left: the page came to the foreground
C26_Witness ==
  /\ Open /\ isConnected /\ msgAge > 0
  /\ \E t \in Pending("watchdog") : t.cur /\ t.left = WATCHDOG_MS

\* C27: a foreground transition while there is no Open session (no socket,
\* or one that is connecting, closing or closed) makes a new connection
\* attempt in the same step and cancels the pending reconnect timer; while an
\* attempt is under way no reconnect timer is pending, so the timer opens no
\* second connection for the outage
C27_ForegroundConnects ==
  /\ [](Connecting => Pending("reconnect") = {})
  /\ [][Visible /\ ~Open =>
          /\ Connecting' /\ ~isConnected'
          /\ reconnectTimer' = 0 /\ Pending("reconnect")' = {}]_vars

\* A connection attempt is under way less than THROTTLE_MS after a data
\* message, although the close of the session was handled in between (its
\* timers are cancelled) and the reconnect timer takes RECONNECT_MS: the page
\* came to the foreground and the pending reconnect timer was cancelled
C27_Witness ==
  /\ phase = "mounted" /\ Connecting
  /\ SessionTimers = {} /\ Pending("throttle") # {}
  /\ reconnectTimer = 0 /\ Pending("reconnect") = {}

\* The timer the variable of a kind holds, if it is pending
Current(kind) == {t \in Pending(kind) : t.cur}

\* C28: when the open signal has been handled isConnected is true, no
\* reconnect timer is pending and the watchdog, the heartbeat and the health
\* check are armed with their full periods; and in every reachable state no
\* reconnect timer is pending while isConnected is true
C28_OpenArmsSession ==
  /\ [](isConnected => Pending("reconnect") = {})
  /\ [][SocketOpen =>
          /\ Open' /\ isConnected'
          /\ Pending("reconnect")' = {}
          /\ Current("watchdog")' = {[kind |-> "watchdog", cur |-> TRUE, left |-> WATCHDOG_MS]}
          /\ Current("heartbeat")' = {[kind |-> "heartbeat", cur |-> TRUE, left |-> HEARTBEAT_MS]}
          /\ Current("health")' = {[kind |-> "health", cur |-> TRUE, left |-> HEALTHCHECK_MS]}]_vars

\* The state the open handler leaves: connected, lastMessageAt just set, no
\* reconnect timer, and the three session timers, no others, pending with
\* their full periods; a sensor record is on display
C28_Witness ==
  /\ Open /\ isConnected /\ Pending("reconnect") = {}
  /\ displayData # 0 /\ msgAge = 0
  /\ SessionTimers = {[kind |-> "watchdog", cur |-> TRUE, left |-> WATCHDOG_MS],
                      [kind |-> "heartbeat", cur |-> TRUE, left |-> HEARTBEAT_MS],
                      [kind |-> "health", cur |-> TRUE, left |-> HEALTHCHECK_MS]}

\* C29: when the promote timer fires displayData becomes the value
\* latestData holds at that moment and the pending flag is cleared: no
\* promote timer is left, so the next data message is shown at once
C29_PromoteShowsLatest ==
  [][ThrottleFire =>
       /\ displayData' = latestData
       /\ throttleTimer' = 0 /\ Pending("throttle")' = {}
       /\ ThrottleIdle(throttleTimer')]_vars

\* C30: a tick issues the unforced full-batch history fetch exactly when the
\* market is open or a catch-up is needed, the quote fetch is not due, the
\* last history fetch is HISTORY_INTERVAL_MS old, the last quote fetch is
\* OFFSET_MS old and the clock is outside the dead zone; it then issues
\* nothing else; and lastHistoryFetchTime changes only when an unforced
\* history fetch is fulfilled
C30_TickFetchesHistory ==
  [][/\ SchedulerTick =>
          /\ FullBatch("history") \in issued' <=>
                /\ IsMarketOpen(now) \/ NeedsClosingFetch(now, tz, lastQuoteFetchTime)
                /\ now - lastQuoteFetchTime < QUOTE_INTERVAL_MS
                /\ now - lastHistoryFetchTime >= HISTORY_INTERVAL_MS
                /\ now - lastQuoteFetchTime >= OFFSET_MS
                /\ ~IsDeadZone(now)
          /\ FullBatch("history") \in issued' => issued' = {FullBatch("history")} /\ OneMoreInFlight
          /\ \A r \in issued' : r.kind = "history" => r = FullBatch("history")
          /\ lastHistoryFetchTime' = lastHistoryFetchTime
     /\ lastHistoryFetchTime' # lastHistoryFetchTime =>
          \E r \in BagToSet(inflight) :
             r.kind = "history" /\ ~r.forced /\ Complete(r, TRUE)]_vars

\* The tick at 09:35:00 on Tuesday, the first outside the dead zone: the
\* quotes were fetched at the start three minutes before, no history fetch
\* has succeeded, and the tick has issued the history fetch alone
C30_Witness ==
  /\ lastOp = "tick" /\ now = Instant(1, 9, 35, 0)
  /\ lastQuoteFetchTime = Instant(1, 9, 32, 0) /\ lastHistoryFetchTime = 0
  /\ issued = {FullBatch("history")}

\* The requests in flight that onMounted awaits: its initial quote fetch
MountRequests == {r \in BagToSet(inflight) : r.cont = "mount"}

\* C31: no request is issued before the watchlist fetch has settled; the
\* history timer and the interval are not started before the initial quote
\* fetch has settled; isLoading is true exactly from the start of onMounted
\* until that fetch settles, fulfilled or rejected; and no history fetch is in
\* flight together with the initial quote fetch
C31_StartupOrder ==
  /\ mpc \in {"setup", "watchlist"} => inflight = EmptyBag
  /\ mpc # "done" => tickAt = 0 /\ histTimerAt = 0 /\ schedulerTimer = 0
  /\ isLoading <=> mpc \in {"watchlist", "quotes"}
  /\ mpc = "quotes" <=> MountRequests # {}
  /\ MountRequests # {} => \A r \in BagToSet(inflight) : r.kind # "history"

\* The initial quote fetch has just been rejected: the loader is off, the
\* history timer and the interval are started
C31_Witness ==
  /\ lastOp = "rejection" /\ mpc = "done" /\ now = startAt
  /\ stockWatchlist # {} /\ lastQuoteFetchTime = 0
  /\ ~isLoading /\ histTimerAt > now /\ tickAt = now + POLL_MS

----------------------------------------------------------------------------
\* The opening: a widget started on Tuesday around the dead zone, at its first
\* second, 17 s into its third minute, at its last second, one second
\* before it and at the first second after it

OpeningInstants == {Instant(1, 9, 29, 59), Instant(1, 9, 30, 0), Instant(1, 9, 32, 17),
                    Instant(1, 9, 34, 59), Instant(1, 9, 35, 0)}

OpeningInit == \E t \in OpeningInstants, z \in TzOffsets : SchedInitAt(t, z, OpeningMinutes)

OpeningStart == OpeningInit /\ StreamInit

OpeningSpec == OpeningStart /\ [][SchedNext]_vars

\* 09:35:05 ET on the day of t
DeadZoneEnd(t) == t - (t % DAY_MS) + (9 * 60 + 35) * MIN_MS + DEADZONE_SLACK_MS

C33_GateMeansHistoryLoaded ==
  isInitialHistoryLoaded
    => /\ lastHistoryFetchTime > 0
       /\ \A s \in stockWatchlist : stockHistory["5min"][s] = 1

\* The jitter an aligned start adds to the minute boundary stays below this
JITTER_MS == 5000

\* The next wall-clock minute boundary after t: t + (60000 - t % 60000)
NextMinute(t) == t + (MIN_MS - (t % MIN_MS))

\* C34: the interval is started aligned: its first tick is due at the next
\* wall-clock minute boundary plus a jitter in [0, 5 s), and every later
\* tick is due 60 s after the one before
C34_TickerAligned ==
  [][/\ mpc # "done" /\ mpc' = "done"
          => tickAt' >= NextMinute(now) /\ tickAt' < NextMinute(now) + JITTER_MS
     /\ SchedulerTick => tickAt' = tickAt + POLL_MS]_vars

\* The two requests of a drill-in on symbol, as the observer keeps them
DrillRequests(symbol) ==
  {[kind |-> "quotes", forced |-> TRUE, syms |-> {symbol}, interval |-> "-"],
   [kind |-> "history", forced |-> TRUE, syms |-> {symbol}, interval |-> "1min"]}

\* C35: a selection made with the gate open issues exactly two forced
\* requests in the same step, quotes and '1min' history, both for the symbol
\* just selected, and both are then in flight together; when the forced
\* history fetch settles the '5min' bucket is unchanged, and a fulfilled one
\* stores its symbol in the '1min' bucket and nothing else
C35_DrillInRequests ==
  [][/\ \A symbol \in Clickable :
          SelectStock(symbol) /\ isInitialHistoryLoaded
            => /\ selectedSymbol' = symbol
               /\ issued' = DrillRequests(symbol)
               /\ BagCardinality(inflight') = BagCardinality(inflight) + 2
               /\ \A d \in DrillRequests(symbol) :
                     \E r \in BagToSet(inflight') :
                        /\ <<r.kind, r.forced, r.syms, r.interval>>
                             = <<d.kind, d.forced, d.syms, d.interval>>
                        /\ CopiesIn(r, inflight') = CopiesIn(r, inflight) + 1
     /\ \A r \in BagToSet(inflight), ok \in BOOLEAN :
          Complete(r, ok) /\ r.kind = "history" /\ r.forced
            => /\ stockHistory'["5min"] = stockHistory["5min"]
               /\ stockHistory'["1min"] =
                    [s \in Symbols |-> IF ok /\ s \in r.syms THEN 1
                                        ELSE stockHistory["1min"][s]]
               /\ Cardinality(r.syms) = 1 /\ r.interval = "1min"]_vars

\* The forced history fetch of a selection has been fulfilled: the '1min'
\* bucket holds the selected symbol alone, next to the populated background
\* bucket
C35_Witness ==
  /\ lastOp = "response" /\ nSelects > 0 /\ selectedSymbol # 0
  /\ \A s \in Symbols : stockHistory["1min"][s] = IF s = selectedSymbol THEN 1 ELSE 0
  /\ stockWatchlist # {} /\ \A s \in stockWatchlist : stockHistory["5min"][s] = 1

\* C36: once onUnmounted has run there is no socket and no pending reconnect
\* timer, in whatever order the close event of the released socket arrives:
\* nothing creates a WebSocket or arms a reconnect after the teardown
C36_QuietAfterUnmount ==
  phase = "unmounted" => socket = 0 /\ Pending("reconnect") = {}

----------------------------------------------------------------------------
\* The supervisor with a runtime that keeps going: time passes and a timer
\* that is due runs.  Nothing is assumed of the transport, which may deliver
\* its events or stay silent.

AttemptStart == StreamInit /\ SchedParked

TimerFire ==
  WatchdogFire \/ HeartbeatFire \/ HealthCheckFire \/ ReconnectFire \/ ThrottleFire

AttemptSpec ==
  AttemptStart /\ [][KeepaliveNext]_vars /\ WF_vars(Tick) /\ WF_vars(TimerFire)

\* C37: a connection attempt does not last for ever: the socket leaves
\* CONNECTING, by opening or by being closed or replaced, whether or not the
\* transport delivers an event for it
C37_AttemptEnds == Connecting ~> ~Connecting

\* The unforced full-batch fetches of one class awaiting their response
Background(kind) == {r \in BagToSet(inflight) : r.kind = kind /\ ~r.forced}

InFlightCount(rs) == BagCardinality([r \in rs |-> CopiesIn(r, inflight)])

\* C38: at most one unforced full-batch quote fetch and at most one unforced
\* full-batch history fetch await their response at any time
C38_OneBackgroundFetch ==
  \A kind \in {"quotes", "history"} : InFlightCount(Background(kind)) <= 1

\* The age of the last fulfilled full-batch quote fetch
QuoteAge == now - lastQuoteFetchTime

\* C39: a scheduler run that issues a history fetch does so with the last
\* fulfilled full-batch quote fetch at least OFFSET_MS and less than
\* QUOTE_INTERVAL_MS old; hence with the market open, not on the catch-up
\* path, after some quote fetch has succeeded and with a watchlist; the run
\* at the end of onMounted issues no history fetch
C39_HistoryAfterFreshQuotes ==
  [][/\ SchedulerTick /\ (\E r \in issued' : r.kind = "history")
          => /\ QuoteAge >= OFFSET_MS /\ QuoteAge < QUOTE_INTERVAL_MS
             /\ lastQuoteFetchTime > 0
             /\ IsMarketOpen(now)
             /\ ~NeedsClosingFetch(now, tz, lastQuoteFetchTime)
             /\ stockWatchlist # {}
     /\ mpc # "done" /\ mpc' = "done" => \A r \in issued' : r.kind # "history"]_vars

\* The startup timer's history fetch was rejected, and the tick two minutes
\* after the initial quote fetch, the earliest the offset allows, has issued
\* the history fetch again
C39_Witness ==
  /\ lastOp = "tick" /\ issued = {FullBatch("history")}
  /\ QuoteAge = OFFSET_MS /\ lastQuoteFetchTime = startAt
  /\ lastHistoryFetchTime = 0 /\ isInitialHistoryLoaded

----------------------------------------------------------------------------
\* The drill-in path with a user who goes back to the list and selects again
\* while the first selection is still loading

ReselectNext ==
  \/ SchedNext
  \/ \E symbol \in Clickable : SelectStockWithin(symbol, MaxReselects)
  \/ ClearSelection

ReselectInit == SchedInitAt(Instant(1, 16, 1, 0), 0, DrillMinutes)

ReselectStart == ReselectInit /\ StreamInit

ReselectSpec == ReselectStart /\ [][ReselectNext]_vars

\* The forced fetches in flight that were issued for symbol
ForcedFor(symbol) == {r \in BagToSet(inflight) : r.forced /\ r.syms = {symbol}}

\* C40: while a forced fetch for the selected symbol awaits its response the
\* detail loader is on
C40_LoaderCoversForcedFetch ==
  selectedSymbol # 0 /\ ForcedFor(selectedSymbol) # {} => isDetailLoading

====
